---- MODULE Spec2Model ----
(***************************************************************************)
(* Offline Pay backend: the voucher settlement path (POST                  *)
(* /api/vouchers/sync), the identity key store (POST /api/register-key,    *)
(* POST /api/auth/register), the wallet (POST /api/balance/add, POST       *)
(* /api/balance/deduct), the start-up (connectDB, app.listen) and the       *)
(* MongoDB collections they share.                                         *)
(*                                                                         *)
(* A request handler is an async function: between two awaited store       *)
(* calls it runs without interruption, and each store call is one atomic   *)
(* operation of the database.  One action of the model is one store call   *)
(* together with the code that runs after it up to the next store call.    *)
(***************************************************************************)
EXTENDS Integers, Sequences, FiniteSets, TLC

\* ------------------------------------------------------------------ bounds

\* Longest voucher batch a modelled request carries.
MaxBatch == 2
\* Register and register-key requests served in one run.
MaxIdentityCalls == 1
\* Wallet requests served in one run.
MaxBalanceRequests == 3

\* ------------------------------------------------------------- JS values

\* A field that is absent from the request body (JS undefined).
Undefined == "undefined"
\* JS null, as stored by /api/auth/register for a missing publicKeyHex.
Null == "null"

\* !x for the string-valued fields of the model.
Falsy(x) == x \in {Undefined, Null, ""}

\* Amounts are JS values: a finite number [t |-> "number", n |-> 50], the
\* non-finite numbers a JSON body can carry (1e999 parses to Infinity)
\* [t |-> "infinity", n |-> 1 or -1], a string [t |-> "string", n |-> 50]
\* or absent [t |-> "undefined", n |-> 0].
Num(n) == [t |-> "number", n |-> n]
Inf(sign) == [t |-> "infinity", n |-> sign]
Str(n) == [t |-> "string", n |-> n]
NoAmount == [t |-> "undefined", n |-> 0]

\* typeof a === "number"
TypeofNumber(a) == a.t \in {"number", "infinity"}

\* ------------------------------------------------------- keys, signatures

\* secp256k1 public keys, hex-encoded.  A key pair is named by its public key:
\* only the holder of the private key of k can produce a signature that
\* verifies under k.
Keys == {"k1", "k2"}
\* A publicKeyHex that is no point of the curve: ec.keyFromPublic throws.
BadKeyHex == "zz"

\* JSON.stringify of one property of the payload object: a string is written
\* quoted, a finite number as its literal, a non-finite number as null, and a
\* property whose value is undefined is left out.
JsonString(s) ==
    IF s = Undefined THEN [jt |-> "omitted", s |-> "", n |-> 0]
    ELSE IF s = Null THEN [jt |-> "null", s |-> "", n |-> 0]
    ELSE [jt |-> "string", s |-> s, n |-> 0]

JsonAmount(a) ==
    CASE a.t = "number" -> [jt |-> "number", s |-> "", n |-> a.n]
      [] a.t = "infinity" -> [jt |-> "null", s |-> "", n |-> 0]
      [] a.t = "string" -> [jt |-> "string", s |-> "", n |-> a.n]
      [] OTHER -> [jt |-> "omitted", s |-> "", n |-> 0]

\* The payload object the handler rebuilds from a voucher, and its
\* JSON.stringify: the five properties in the order of the object literal.
Payload(v) ==
    [voucherId |-> v.voucherId, merchantId |-> v.merchantId, amount |-> v.amount,
     createdAt |-> v.createdAt, issuedTo |-> v.issuedTo]

JsonStringify(p) ==
    << JsonString(p.voucherId), JsonString(p.merchantId), JsonAmount(p.amount),
       JsonString(p.createdAt), JsonString(p.issuedTo) >>

\* crypto.createHash("sha256").update(payloadStr).digest("hex"): collision free.
Sha256Hex(payloadStr) == [sha256 |-> payloadStr]

\* A signature in the request body: a DER signature made with the private key
\* of `signer` over the digest of JSON.stringify(signed), a hex string that is
\* no DER signature, or no signature at all.
NoFields ==
    [voucherId |-> Undefined, merchantId |-> Undefined, amount |-> NoAmount,
     createdAt |-> Undefined, issuedTo |-> Undefined]
DerSignature(signer, signed) == [form |-> "der", signer |-> signer, signed |-> signed]
GarbageSignature == [form |-> "garbage", signer |-> "", signed |-> NoFields]
NoSignature == [form |-> "undefined", signer |-> "", signed |-> NoFields]

\* ec.keyFromPublic(userPubHex, "hex") followed by key.verify(msgHashHex,
\* v.signature): "throws" when the key or the signature cannot be parsed,
\* otherwise whether the signature was made with the key's private half over
\* this digest.
EcVerify(userPubHex, msgHashHex, signature) ==
    IF userPubHex \notin Keys \/ signature.form # "der" THEN "throws"
    ELSE IF /\ signature.signer = userPubHex
            /\ Sha256Hex(JsonStringify(signature.signed)) = msgHashHex
         THEN "true" ELSE "false"

\* ------------------------------------------------------- the sync handler,
\* the code of one loop iteration that touches no store

\* The reason the "simple validation" rejects voucher v with, or "ok".
Validate(v, merchantId) ==
    IF Falsy(v.voucherId) \/ Falsy(v.merchantId) \/ ~TypeofNumber(v.amount)
       \/ v.signature.form = "undefined"
    THEN "Invalid format"
    ELSE IF v.merchantId # merchantId THEN "Wrong merchantId"
    ELSE IF Falsy(v.issuedTo) THEN "Missing issuedTo"
    ELSE "ok"

\* A catch block that reports a thrown error with the reason of a negative
\* verification.
VerifyVoucherOneReason(v, userPubHex) ==
    LET msgHashHex == Sha256Hex(JsonStringify(Payload(v)))
        signatureOk == EcVerify(userPubHex, msgHashHex, v.signature)
    IN  IF signatureOk = "true" THEN "ok" ELSE "Bad signature"

\* Rebuild the payload, hash it and verify the signature with userPubHex:
\* the rejection reason, or "ok".
VerifyVoucher(v, userPubHex) ==
    LET msgHashHex == Sha256Hex(JsonStringify(Payload(v)))
        signatureOk == EcVerify(userPubHex, msgHashHex, v.signature)
    IN  CASE signatureOk = "throws" -> "Signature verify error"
          [] signatureOk = "false" -> "Bad signature"
          [] OTHER -> "ok"

\* ------------------------------------------------------------------ state

Requests == {"r1", "r2"}
\* The wallet requests (POST /api/balance/add, POST /api/balance/deduct) of a run.
BalanceRequests == 1..MaxBalanceRequests

VARIABLES
    vouchers,     \* the vouchers collection: documents in insertion order
    users,        \* the users collection: documents in insertion order
    pool,         \* the vouchers the merchants' devices may upload in this run
    pc,           \* per sync request: the store call it is waiting for
    merchantId,   \* per sync request: req.body.merchantId
    batch,        \* per sync request: req.body.vouchers
    idx,          \* per sync request: position of the loop in the batch
    syncedIds,    \* per sync request: the handler's syncedIds array
    rejected,     \* per sync request: the handler's rejected array
    userPubHex,   \* per sync request: the key resolved for the current voucher
    response,     \* per sync request: what res.json sent, status 0 before
    syncError,    \* per sync request: the error its catch block logged, "" if none
    identityCalls, \* register and register-key requests served so far
    balPc,        \* per balance request: the store call it is waiting for
    balRequest,   \* per balance request: its route, req.user.userId and req.body
    balRead,      \* per balance request: user.balance || 0 as its findOne read it
    balResponse,  \* per balance request: what res.json sent, status 0 before
    db,           \* db.js: the module's `let db`, undefined until connectDB sets it
    indexes,      \* the indexes connectDB has created so far
    connectPc,    \* where connectDB stands: "connect", "createIndex", "done", "exited"
    server        \* "starting" until app.listen has run, then "listening"

vars == << vouchers, users, pool, pc, merchantId, batch, idx, syncedIds,
           rejected, userPubHex, response, syncError, identityCalls,
           balPc, balRequest, balRead, balResponse, db, indexes, connectPc, server >>

reqVars == << pc, merchantId, batch, idx, syncedIds, rejected, userPubHex, response,
              syncError >>

balVars == << balPc, balRequest, balRead, balResponse >>

bootVars == << db, indexes, connectPc, server >>

\* ------------------------------------------------- db.js and the start-up

\* client.db(dbName)
DbHandle == "db"

\* The createIndex calls of connectDB, in their order.
IndexSpecs ==
    << [collection |-> "users", key |-> "userId", unique |-> TRUE],
       [collection |-> "users", key |-> "phone", unique |-> TRUE],
       [collection |-> "merchants", key |-> "merchantId", unique |-> TRUE],
       [collection |-> "vouchers", key |-> "voucherId", unique |-> TRUE],
       [collection |-> "vouchers", key |-> "issuedTo", unique |-> FALSE],
       [collection |-> "vouchers", key |-> "merchantId", unique |-> FALSE] >>

\* getDB(): throws while db is not set, returns it afterwards.
GetDB == IF db = Undefined THEN "throws" ELSE db

\* connectDB: client.connect() resolves and db is assigned.
Connect ==
    /\ connectPc = "connect"
    /\ db' = DbHandle
    /\ connectPc' = "createIndex"
    /\ UNCHANGED << vouchers, users, pool, reqVars, identityCalls, balVars, indexes, server >>

\* connectDB: the next createIndex resolves; after the last one connectDB
\* returns.
CreateIndex ==
    /\ connectPc = "createIndex"
    /\ indexes' = Append(indexes, IndexSpecs[Len(indexes) + 1])
    /\ connectPc' = IF Len(indexes') = Len(IndexSpecs) THEN "done" ELSE "createIndex"
    /\ UNCHANGED << vouchers, users, pool, reqVars, identityCalls, balVars, db, server >>

\* connectDB: the awaited call throws; the catch block ends the process.
ConnectDBFails ==
    /\ connectPc \in {"connect", "createIndex"}
    /\ connectPc' = "exited"
    /\ UNCHANGED << vouchers, users, pool, reqVars, identityCalls, balVars, db, indexes,
                    server >>

\* A start-up that calls app.listen without waiting for connectDB.
ListenAtOnce == connectPc # "exited"

\* The promise connectDB() returned has resolved.
ConnectDBResolved == connectPc = "done"

\* connectDB().then(() => app.listen(PORT, ...))
Listen ==
    /\ server = "starting"
    /\ ConnectDBResolved
    /\ server' = "listening"
    /\ UNCHANGED << vouchers, users, pool, reqVars, identityCalls, balVars, db, indexes,
                    connectPc >>

\* ---------------------------------------------------------- the collections

\* collection.findOne({field: value}): the position of the first document
\* whose field has the value, 0 (null) when there is none.
FindOne(coll, field, value) ==
    LET hits == {i \in 1..Len(coll) : field \in DOMAIN coll[i] /\ coll[i][field] = value}
    IN  IF hits = {} THEN 0 ELSE CHOOSE i \in hits : \A j \in hits : i <= j

\* The unique indexes connectDB creates before the server listens: an insert
\* of a document whose indexed field equals that of a stored document fails
\* with a duplicate key error.
NoUniqueIndex(coll, field, value) == TRUE

UniqueIndexAllows(coll, field, value) == FindOne(coll, field, value) = 0

\* user?.publicKeyHex for the result of a findOne on users.
StoredKey(coll, userId) ==
    LET i == FindOne(coll, "userId", userId)
    IN  IF i = 0 THEN Undefined ELSE coll[i].publicKeyHex

\* vouchersCollection.countDocuments()
CountDocuments(coll) == Len(coll)

\* new Date().toISOString() on the server.
ServerTime == "serverTime"

\* ------------------------------------------------- POST /api/vouchers/sync

\* A handler that puts a rejection in front of the earlier ones (unshift).
RejectFirst(rej, v, reason) == << [voucherId |-> v.voucherId, reason |-> reason] >> \o rej

Reject(rej, v, reason) == Append(rej, [voucherId |-> v.voucherId, reason |-> reason])

RECURSIVE LoopFrom(_, _, _, _)
\* A handler that hands whatever key it has to the verification, a missing
\* key included.
VerifyStepUnchecked(b, m, i, rej, key) ==
    LET reason == VerifyVoucher(b[i], key)
    IN  IF reason # "ok"
        THEN LoopFrom(b, m, i + 1, Reject(rej, b[i], reason))
        ELSE [pc |-> "findVoucher", idx |-> i, rejected |-> rej, userPubHex |-> key]

\* The handler once userPubHex is known for voucher b[i]: the missing-key
\* rejection and the signature verification.  A voucher that passes leaves
\* the handler waiting for the duplicate lookup.
VerifyStep(b, m, i, rej, key) ==
    IF Falsy(key)
    THEN LoopFrom(b, m, i + 1, Reject(rej, b[i], "Missing public key in voucher"))
    ELSE LET reason == VerifyVoucher(b[i], key)
         IN  IF reason # "ok"
             THEN LoopFrom(b, m, i + 1, Reject(rej, b[i], reason))
             ELSE [pc |-> "findVoucher", idx |-> i, rejected |-> rej, userPubHex |-> key]

\* The for loop from voucher i on, up to its next store call: vouchers that
\* fail a check are rejected and skipped; the loop stops at the first voucher
\* that needs the store, or after the last voucher at countDocuments.
LoopFrom(b, m, i, rej) ==
    IF i > Len(b)
    THEN [pc |-> "countDocuments", idx |-> i, rejected |-> rej, userPubHex |-> Undefined]
    ELSE LET reason == Validate(b[i], m)
         IN  IF reason # "ok"
             THEN LoopFrom(b, m, i + 1, Reject(rej, b[i], reason))
             ELSE IF Falsy(b[i].publicKeyHex)
             THEN [pc |-> "findKey", idx |-> i, rejected |-> rej, userPubHex |-> Undefined]
             ELSE VerifyStep(b, m, i, rej, b[i].publicKeyHex)

\* The handler of request r moves on as the record `nx` of LoopFrom says.
Continue(r, nx) ==
    /\ pc' = [pc EXCEPT ![r] = nx.pc]
    /\ idx' = [idx EXCEPT ![r] = nx.idx]
    /\ rejected' = [rejected EXCEPT ![r] = nx.rejected]
    /\ userPubHex' = [userPubHex EXCEPT ![r] = nx.userPubHex]

\* A store call of request r throws `error`: the catch block logs it and
\* answers 500.
DatabaseError(r, error) ==
    /\ pc' = [pc EXCEPT ![r] = "done"]
    /\ syncError' = [syncError EXCEPT ![r] = error]
    /\ response' = [response EXCEPT ![r] = [status |-> 500, error |-> "Database error"]]
    /\ UNCHANGED << idx, rejected, userPubHex, syncedIds >>

Batches == UNION {[1..n -> pool] : n \in 0..MaxBatch}

\* The request arrives: the body check, then the loop up to its first store call.
SyncRequest(r) ==
    /\ pc[r] = "idle"
    /\ \E m \in {"m1", Undefined}, b \in Batches :
        /\ merchantId' = [merchantId EXCEPT ![r] = m]
        /\ batch' = [batch EXCEPT ![r] = b]
        /\ IF Falsy(m)
           THEN /\ pc' = [pc EXCEPT ![r] = "done"]
                /\ response' = [response EXCEPT ![r] = [status |-> 400, error |-> "Invalid body"]]
                /\ UNCHANGED << idx, rejected, userPubHex >>
           ELSE /\ Continue(r, LoopFrom(b, m, 1, << >>))
                /\ UNCHANGED response
    /\ UNCHANGED << vouchers, users, pool, syncedIds, syncError, identityCalls, balVars, bootVars >>

\* usersCollection.findOne({ userId: issuedTo }) for a voucher without an
\* inline key, then the verification with the stored key.
FindKey(r) ==
    /\ pc[r] = "findKey"
    /\ Continue(r, VerifyStep(batch[r], merchantId[r], idx[r], rejected[r],
                              StoredKey(users, batch[r][idx[r]].issuedTo)))
    /\ UNCHANGED << vouchers, users, pool, merchantId, batch, syncedIds, response,
                    syncError, identityCalls, balVars, bootVars >>

\* const already = await vouchersCollection.findOne({ voucherId }).
NeverAlready(coll, voucherId) == 0

Already(coll, voucherId) == FindOne(coll, "voucherId", voucherId)

\* A handler that registers the payer before it looks for a duplicate.
FindVoucherAfterRegistration(r) ==
    /\ pc[r] = "findVoucher"
    /\ LET v == batch[r][idx[r]]
           already == Already(vouchers, v.voucherId)
       IN  /\ users' = IF FindOne(users, "userId", v.issuedTo) = 0
                       THEN Append(users, [userId |-> v.issuedTo,
                                           publicKeyHex |-> userPubHex[r],
                                           registeredAt |-> ServerTime])
                       ELSE users
           /\ IF already # 0
              THEN Continue(r, LoopFrom(batch[r], merchantId[r], idx[r] + 1,
                                        Reject(rejected[r], v, "Duplicate voucherId")))
              ELSE /\ pc' = [pc EXCEPT ![r] = "findUser"]
                   /\ UNCHANGED << idx, rejected, userPubHex >>
    /\ UNCHANGED << vouchers, pool, merchantId, batch, syncedIds, response,
                    syncError, identityCalls, balVars, bootVars >>

\* The duplicate check.
FindVoucher(r) ==
    /\ pc[r] = "findVoucher"
    /\ LET v == batch[r][idx[r]]
           already == Already(vouchers, v.voucherId)
       IN  IF already # 0
           THEN Continue(r, LoopFrom(batch[r], merchantId[r], idx[r] + 1,
                                     Reject(rejected[r], v, "Duplicate voucherId")))
           ELSE /\ pc' = [pc EXCEPT ![r] = "findUser"]
                /\ UNCHANGED << idx, rejected, userPubHex >>
    /\ UNCHANGED << vouchers, users, pool, merchantId, batch, syncedIds, response,
                    syncError, identityCalls, balVars, bootVars >>

\* usersCollection.findOne({ userId: issuedTo }) before the auto-registration.
FindUser(r) ==
    /\ pc[r] = "findUser"
    /\ LET user == FindOne(users, "userId", batch[r][idx[r]].issuedTo)
       IN  pc' = [pc EXCEPT ![r] =
                    IF user = 0 /\ ~Falsy(userPubHex[r]) THEN "insertUser" ELSE "insertVoucher"]
    /\ UNCHANGED << vouchers, users, pool, merchantId, batch, idx, syncedIds, rejected,
                    userPubHex, response, syncError, identityCalls, balVars, bootVars >>

\* usersCollection.insertOne: the auto-registration of issuedTo.
InsertUser(r) ==
    /\ pc[r] = "insertUser"
    /\ LET issuedTo == batch[r][idx[r]].issuedTo
       IN  IF UniqueIndexAllows(users, "userId", issuedTo)
           THEN /\ users' = Append(users, [userId |-> issuedTo,
                                           publicKeyHex |-> userPubHex[r],
                                           registeredAt |-> ServerTime])
                /\ pc' = [pc EXCEPT ![r] = "insertVoucher"]
                /\ UNCHANGED << idx, rejected, userPubHex, syncedIds, response, syncError >>
           ELSE /\ DatabaseError(r, "E11000 duplicate key: users.userId")
                /\ UNCHANGED users
    /\ UNCHANGED << vouchers, pool, merchantId, batch, identityCalls, balVars, bootVars >>

\* A handler that stores the voucher as the device holds it: offline, stamped
\* by the device.
VoucherDocumentAsUploaded(v, m) ==
    [voucherId |-> v.voucherId, merchantId |-> m, amount |-> v.amount,
     createdAt |-> v.createdAt, issuedTo |-> v.issuedTo, signature |-> v.signature,
     status |-> "offline", syncedAt |-> v.createdAt]

\* The document the handler stores for voucher v of a batch declared for m.
VoucherDocument(v, m) ==
    [voucherId |-> v.voucherId, merchantId |-> m, amount |-> v.amount,
     createdAt |-> v.createdAt, issuedTo |-> v.issuedTo, signature |-> v.signature,
     status |-> "synced", syncedAt |-> ServerTime]

\* A settlement that also takes the amount out of the payer's wallet.
InsertVoucherDebiting(r) ==
    /\ pc[r] = "insertVoucher"
    /\ LET v == batch[r][idx[r]]
           i == FindOne(users, "userId", v.issuedTo)
       IN  IF UniqueIndexAllows(vouchers, "voucherId", v.voucherId)
           THEN /\ vouchers' = Append(vouchers, VoucherDocument(v, merchantId[r]))
                /\ users' = IF i = 0
                            THEN users
                            ELSE LET d == users[i]
                                     old == IF "balance" \in DOMAIN d THEN d.balance ELSE 0
                                 IN  [users EXCEPT ![i] =
                                        [f \in DOMAIN d \cup {"balance"} |->
                                            IF f = "balance" THEN old - v.amount.n ELSE d[f]]]
                /\ syncedIds' = [syncedIds EXCEPT ![r] = Append(@, v.voucherId)]
                /\ Continue(r, LoopFrom(batch[r], merchantId[r], idx[r] + 1, rejected[r]))
                /\ UNCHANGED << response, syncError >>
           ELSE /\ DatabaseError(r, "E11000 duplicate key: vouchers.voucherId")
                /\ UNCHANGED << vouchers, users >>
    /\ UNCHANGED << pool, merchantId, batch, identityCalls, balVars, bootVars >>

\* A settlement that writes with replaceOne and upsert: a stored voucher of
\* the same voucherId is overwritten.
InsertVoucherReplacing(r) ==
    /\ pc[r] = "insertVoucher"
    /\ LET v == batch[r][idx[r]]
           i == FindOne(vouchers, "voucherId", v.voucherId)
       IN  /\ vouchers' = IF i = 0
                          THEN Append(vouchers, VoucherDocument(v, merchantId[r]))
                          ELSE [vouchers EXCEPT ![i] = VoucherDocument(v, merchantId[r])]
           /\ syncedIds' = [syncedIds EXCEPT ![r] = Append(@, v.voucherId)]
           /\ Continue(r, LoopFrom(batch[r], merchantId[r], idx[r] + 1, rejected[r]))
           /\ UNCHANGED << response, syncError >>
    /\ UNCHANGED << users, pool, merchantId, batch, identityCalls, balVars, bootVars >>

\* vouchersCollection.insertOne, syncedIds.push and the loop up to the next
\* store call.
InsertVoucher(r) ==
    /\ pc[r] = "insertVoucher"
    /\ LET v == batch[r][idx[r]]
       IN  IF UniqueIndexAllows(vouchers, "voucherId", v.voucherId)
           THEN /\ vouchers' = Append(vouchers, VoucherDocument(v, merchantId[r]))
                /\ syncedIds' = [syncedIds EXCEPT ![r] = Append(@, v.voucherId)]
                /\ Continue(r, LoopFrom(batch[r], merchantId[r], idx[r] + 1, rejected[r]))
                /\ UNCHANGED << response, syncError >>
           ELSE /\ DatabaseError(r, "E11000 duplicate key: vouchers.voucherId")
                /\ UNCHANGED vouchers
    /\ UNCHANGED << users, pool, merchantId, batch, identityCalls, balVars, bootVars >>

\* vouchersCollection.countDocuments() and the answer.
SyncResponse(r) ==
    /\ pc[r] = "countDocuments"
    /\ pc' = [pc EXCEPT ![r] = "done"]
    /\ response' = [response EXCEPT ![r] =
                      [status |-> 200, syncedIds |-> syncedIds[r], rejected |-> rejected[r],
                       totalStored |-> CountDocuments(vouchers)]]
    /\ UNCHANGED << vouchers, users, pool, merchantId, batch, idx, syncedIds, rejected,
                    userPubHex, syncError, identityCalls, balVars, bootVars >>

\* --------------------------------------- the identity store's other writers

UserIds == {"u1", "u2"}
Phones == {"p1"}
\* The identities whose devices call register and register-key in a run.
Registrants == {"u1"}

\* updateOne's $set on a document: the named fields are overwritten or added.
SetFields(doc, upd) ==
    [f \in DOMAIN doc \cup DOMAIN upd |-> IF f \in DOMAIN upd THEN upd[f] ELSE doc[f]]

\* collection.updateOne({ userId }, { $set: upd }, { upsert: true }).
UpsertOne(coll, userId, upd) ==
    LET i == FindOne(coll, "userId", userId)
    IN  IF i = 0
        THEN Append(coll, SetFields([userId |-> userId], upd))
        ELSE [coll EXCEPT ![i] = SetFields(@, upd)]

\* POST /api/register-key: no authentication; the body names the identity.
RegisterKey(userId, publicKeyHex) ==
    /\ identityCalls < MaxIdentityCalls
    /\ identityCalls' = identityCalls + 1
    /\ IF Falsy(userId) \/ Falsy(publicKeyHex)
       THEN UNCHANGED users
       ELSE users' = UpsertOne(users, userId,
                               [publicKeyHex |-> publicKeyHex, registeredAt |-> ServerTime])
    /\ UNCHANGED << vouchers, pool, reqVars, balVars, bootVars >>

\* The document /api/auth/register inserts (name and password hash left out):
\* a wallet with balance 0 and no history.
NewUser(userId, phone, publicKeyHex) ==
    [userId |-> userId, phone |-> phone,
     publicKeyHex |-> IF Falsy(publicKeyHex) THEN Null ELSE publicKeyHex,
     balance |-> 0, createdAt |-> ServerTime, role |-> "user"]

\* POST /api/auth/register: the new user document (name and password hash
\* left out) is inserted unless the phone is taken; userId is derived from the
\* clock, and the unique indexes on userId and phone guard the insert.
Register(userId, phone, publicKeyHex) ==
    /\ identityCalls < MaxIdentityCalls
    /\ identityCalls' = identityCalls + 1
    /\ IF /\ FindOne(users, "phone", phone) = 0
          /\ UniqueIndexAllows(users, "userId", userId)
          /\ UniqueIndexAllows(users, "phone", phone)
       THEN users' = Append(users, NewUser(userId, phone, publicKeyHex))
       ELSE UNCHANGED users
    /\ UNCHANGED << vouchers, pool, reqVars, balVars, bootVars >>

\* ------------------------------- POST /api/balance/add, /api/balance/deduct

\* The ceiling of one top-up.
MaxLoadAmount == 1000

\* No request has arrived on this slot.
NoRequest == [route |-> "", userId |-> Undefined, amount |-> NoAmount]

\* !amount || typeof amount !== 'number' || amount <= 0
InvalidAmount(amount) ==
    \/ amount.t = "undefined"
    \/ (amount.t = "number" /\ amount.n = 0)
    \/ ~TypeofNumber(amount)
    \/ (amount.t = "number" /\ amount.n <= 0)
    \/ (amount.t = "infinity" /\ amount.n < 0)

\* amount > 1000, for an amount that passed InvalidAmount.
ExceedsMaximum(amount) == amount.t = "infinity" \/ amount.n > MaxLoadAmount

\* currentBalance < amount, for an amount that passed InvalidAmount.
Insufficient(currentBalance, amount) == amount.t = "infinity" \/ currentBalance < amount.n

\* A handler that takes every balance it reads for zero.
UserBalanceUnread(doc) == 0

\* user.balance || 0 for a users document.
UserBalance(doc) == IF "balance" \in DOMAIN doc THEN doc.balance ELSE 0

\* The balanceHistory array of a users document, empty while $push has not
\* created it.
BalanceHistory(doc) == IF "balanceHistory" \in DOMAIN doc THEN doc.balanceHistory ELSE << >>

\* An update whose filter matches every document (updateMany({}, ...)).
UpdateBalanceAll(coll, userId, newBalance, entry) ==
    [i \in 1..Len(coll) |->
        [f \in DOMAIN coll[i] \cup {"balance", "balanceHistory"} |->
            IF f = "balance" THEN newBalance
            ELSE IF f = "balanceHistory"
                 THEN Append(IF "balanceHistory" \in DOMAIN coll[i]
                             THEN coll[i].balanceHistory ELSE << >>, entry)
                 ELSE coll[i][f]]]

\* updateOne({ userId }, { $set: { balance: newBalance },
\*                         $push: { balanceHistory: entry } })
UpdateBalance(coll, userId, newBalance, entry) ==
    LET i == FindOne(coll, "userId", userId)
    IN  IF i = 0
        THEN coll
        ELSE [coll EXCEPT ![i] =
                 SetFields(@, [balance |-> newBalance,
                               balanceHistory |-> Append(BalanceHistory(@), entry)])]

\* res.status(status).json({ error }) ends the handler of balance request b.
BalanceError(b, status, error) ==
    /\ balPc' = [balPc EXCEPT ![b] = "done"]
    /\ balResponse' = [balResponse EXCEPT ![b] = [status |-> status, error |-> error]]

\* POST /api/balance/add arrives for the authenticated userId: the amount is
\* validated, and a valid request goes on to read the user.
AddRequest(b, userId, amount) ==
    /\ balPc[b] = "idle"
    /\ balRequest' = [balRequest EXCEPT ![b] =
                         [route |-> "add", userId |-> userId, amount |-> amount]]
    /\ IF InvalidAmount(amount)
       THEN BalanceError(b, 400, "Invalid amount")
       ELSE IF ExceedsMaximum(amount)
       THEN BalanceError(b, 400, "Maximum load amount is 1000")  \* the text, less its currency sign
       ELSE /\ balPc' = [balPc EXCEPT ![b] = "addFindOne"]
            /\ UNCHANGED balResponse
    /\ UNCHANGED << vouchers, users, pool, reqVars, identityCalls, bootVars, balRead >>

\* add: usersCollection.findOne({ userId }) returns.
AddFindOne(b) ==
    /\ balPc[b] = "addFindOne"
    /\ LET i == FindOne(users, "userId", balRequest[b].userId)
       IN  IF i = 0
           THEN /\ BalanceError(b, 404, "User not found")
                /\ UNCHANGED balRead
           ELSE /\ balRead' = [balRead EXCEPT ![b] = UserBalance(users[i])]
                /\ balPc' = [balPc EXCEPT ![b] = "addUpdateOne"]
                /\ UNCHANGED balResponse
    /\ UNCHANGED << vouchers, users, pool, reqVars, identityCalls, bootVars, balRequest >>

\* add: usersCollection.updateOne runs with the newBalance computed from the
\* balance read, and the handler answers.
AddUpdateOne(b) ==
    /\ balPc[b] = "addUpdateOne"
    /\ LET amount == balRequest[b].amount
           newBalance == balRead[b] + amount.n
       IN  /\ users' = UpdateBalance(users, balRequest[b].userId, newBalance,
                           [type |-> "add", amount |-> amount.n, timestamp |-> ServerTime,
                            previousBalance |-> balRead[b], newBalance |-> newBalance])
           /\ balResponse' = [balResponse EXCEPT ![b] =
                  [status |-> 200, success |-> TRUE, balance |-> newBalance,
                   amount |-> amount.n]]
    /\ balPc' = [balPc EXCEPT ![b] = "done"]
    /\ UNCHANGED << vouchers, pool, reqVars, identityCalls, bootVars, balRequest, balRead >>

\* POST /api/balance/deduct arrives for the authenticated userId: the amount
\* is validated, and a valid request goes on to read the user.
DeductRequest(b, userId, amount) ==
    /\ balPc[b] = "idle"
    /\ balRequest' = [balRequest EXCEPT ![b] =
                         [route |-> "deduct", userId |-> userId, amount |-> amount]]
    /\ IF InvalidAmount(amount)
       THEN BalanceError(b, 400, "Invalid amount")
       ELSE /\ balPc' = [balPc EXCEPT ![b] = "deductFindOne"]
            /\ UNCHANGED balResponse
    /\ UNCHANGED << vouchers, users, pool, reqVars, identityCalls, bootVars, balRead >>

\* deduct: usersCollection.findOne({ userId }) returns, and the balance read
\* is compared with the amount.
DeductFindOne(b) ==
    /\ balPc[b] = "deductFindOne"
    /\ LET i == FindOne(users, "userId", balRequest[b].userId)
           amount == balRequest[b].amount
       IN  IF i = 0
           THEN /\ BalanceError(b, 404, "User not found")
                /\ UNCHANGED balRead
           ELSE LET currentBalance == UserBalance(users[i])
                IN  /\ balRead' = [balRead EXCEPT ![b] = currentBalance]
                    /\ IF Insufficient(currentBalance, amount)
                       THEN /\ balPc' = [balPc EXCEPT ![b] = "done"]
                            /\ balResponse' = [balResponse EXCEPT ![b] =
                                   [status |-> 400, error |-> "Insufficient balance",
                                    required |-> amount, available |-> currentBalance]]
                       ELSE /\ balPc' = [balPc EXCEPT ![b] = "deductUpdateOne"]
                            /\ UNCHANGED balResponse
    /\ UNCHANGED << vouchers, users, pool, reqVars, identityCalls, bootVars, balRequest >>

\* A debit whose update subtracts the amount from the balance the store holds
\* at the update ($inc), without comparing again.
DeductUpdateOneInc(b) ==
    /\ balPc[b] = "deductUpdateOne"
    /\ LET amount == balRequest[b].amount
           i == FindOne(users, "userId", balRequest[b].userId)
           newBalance == UserBalance(users[i]) - amount.n
       IN  /\ users' = UpdateBalance(users, balRequest[b].userId, newBalance,
                           [type |-> "payment", amount |-> amount.n,
                            timestamp |-> ServerTime,
                            previousBalance |-> UserBalance(users[i]),
                            newBalance |-> newBalance, merchantId |-> "m1",
                            voucherId |-> "v1"])
           /\ balResponse' = [balResponse EXCEPT ![b] =
                  [status |-> 200, success |-> TRUE, balance |-> newBalance,
                   amount |-> amount.n]]
    /\ balPc' = [balPc EXCEPT ![b] = "done"]
    /\ UNCHANGED << vouchers, pool, reqVars, identityCalls, bootVars, balRequest, balRead >>

\* deduct: usersCollection.updateOne runs with the newBalance computed from
\* the balance read, and the handler answers.  The merchantId and voucherId of
\* the body go into the history entry as they came.
DeductUpdateOne(b) ==
    /\ balPc[b] = "deductUpdateOne"
    /\ LET amount == balRequest[b].amount
           newBalance == balRead[b] - amount.n
       IN  /\ users' = UpdateBalance(users, balRequest[b].userId, newBalance,
                           [type |-> "payment", amount |-> amount.n,
                            timestamp |-> ServerTime, previousBalance |-> balRead[b],
                            newBalance |-> newBalance, merchantId |-> "m1",
                            voucherId |-> "v1"])
           /\ balResponse' = [balResponse EXCEPT ![b] =
                  [status |-> 200, success |-> TRUE, balance |-> newBalance,
                   amount |-> amount.n]]
    /\ balPc' = [balPc EXCEPT ![b] = "done"]
    /\ UNCHANGED << vouchers, pool, reqVars, identityCalls, bootVars, balRequest, balRead >>

\* ------------------------------------------------------- uploaded vouchers

\* What a payer's device produces: the five fields, signed with the private
\* key of `key` over the digest of their JSON.stringify; the public key is
\* carried inline or left out.
SignedVoucher(voucherId, amount, issuedTo, key, inline) ==
    LET fields == [voucherId |-> voucherId, merchantId |-> "m1", amount |-> amount,
                   createdAt |-> "t1", issuedTo |-> issuedTo]
    IN  [voucherId |-> voucherId, merchantId |-> "m1", amount |-> amount,
         createdAt |-> "t1", issuedTo |-> issuedTo,
         publicKeyHex |-> IF inline THEN key ELSE Undefined,
         signature |-> DerSignature(key, fields)]

\* u1 holds k1.  A and B are two payments of u1, B without the inline key.
VoucherA == SignedVoucher("v1", Num(50), "u1", "k1", TRUE)
VoucherB == SignedVoucher("v2", Num(50), "u1", "k1", FALSE)
\* A with its amount raised after signing.
VoucherATampered == [VoucherA EXCEPT !.amount = Num(70)]
\* A voucher naming u1 that the holder of k2 signed, k2 inline.
VoucherForged == SignedVoucher("v2", Num(50), "u1", "k2", TRUE)
\* Signed vouchers over zero and negative amounts.
VoucherZero == SignedVoucher("v1", Num(0), "u1", "k1", TRUE)
VoucherNegative == SignedVoucher("v2", Num(0 - 5), "u1", "k1", TRUE)
\* Signed over amount 1e999, uploaded with amount -1e999.
VoucherNonFinite == [SignedVoucher("v2", Inf(1), "u1", "k1", TRUE) EXCEPT !.amount = Inf(0 - 1)]

\* Uploads that fail a check before any store call: A declared for another
\* merchant, A with a signature that is no DER, A with a string amount.
VoucherWrongMerchant == [VoucherA EXCEPT !.merchantId = "m2"]
VoucherGarbageSignature == [VoucherA EXCEPT !.signature = GarbageSignature]
VoucherStringAmount == [VoucherA EXCEPT !.amount = Str(50)]

\* A voucher of u1 whose inline publicKeyHex is no key, and one whose amount
\* was raised after signing.
VoucherBadKey ==
    [SignedVoucher("v3", Num(50), "u1", "k1", TRUE) EXCEPT !.publicKeyHex = BadKeyHex]
VoucherOverstated == [SignedVoucher("v2", Num(50), "u1", "k1", TRUE) EXCEPT !.amount = Num(70)]
\* A voucher of u1 without inline key whose signature is no DER.
VoucherUnreadable ==
    [SignedVoucher("v3", Num(50), "u1", "k1", FALSE) EXCEPT !.signature = GarbageSignature]

\* A second voucher of u1, signed like A and with the key inline.
VoucherSecond == SignedVoucher("v2", Num(50), "u1", "k1", TRUE)

\* B as a device uploads it without issuedTo.
VoucherNoPayer == [VoucherB EXCEPT !.issuedTo = Undefined]

\* A voucher of another payer, u2 holding k2, under the voucherId of A.
VoucherOtherPayer == SignedVoucher("v1", Num(50), "u2", "k2", TRUE)

\* The uploads of the runs about duplicates: resubmission of the same voucher,
\* and two payers' vouchers under one voucherId.
PoolsDuplicates ==
    { {VoucherA, VoucherB},
      {VoucherA, VoucherOtherPayer} }

Pools ==
    { {VoucherA, VoucherB, VoucherATampered},
      {VoucherA, VoucherForged},
      {VoucherZero, VoucherNegative},
      {VoucherA, VoucherNonFinite},
      {VoucherWrongMerchant, VoucherGarbageSignature, VoucherStringAmount} }

\* ---------------------------------------------------------- specification

\* The collections hold `docs` as users and `ledger` as vouchers; no request
\* has arrived.
InitData(pools, docs, ledger) ==
    /\ vouchers = ledger
    /\ users = docs
    /\ pool \in pools
    /\ pc = [r \in Requests |-> "idle"]
    /\ merchantId = [r \in Requests |-> Undefined]
    /\ batch = [r \in Requests |-> << >>]
    /\ idx = [r \in Requests |-> 0]
    /\ syncedIds = [r \in Requests |-> << >>]
    /\ rejected = [r \in Requests |-> << >>]
    /\ userPubHex = [r \in Requests |-> Undefined]
    /\ response = [r \in Requests |-> [status |-> 0]]
    /\ syncError = [r \in Requests |-> ""]
    /\ identityCalls = 0
    /\ balPc = [b \in BalanceRequests |-> "idle"]
    /\ balRequest = [b \in BalanceRequests |-> NoRequest]
    /\ balRead = [b \in BalanceRequests |-> 0]
    /\ balResponse = [b \in BalanceRequests |-> [status |-> 0]]

\* connectDB has returned and app.listen has run.
Started ==
    /\ db = DbHandle
    /\ indexes = IndexSpecs
    /\ connectPc = "done"
    /\ server = "listening"

\* The server starts listening on collections that hold `docs` as users and
\* `ledger` as vouchers.
InitHolding(pools, docs, ledger) == InitData(pools, docs, ledger) /\ Started

\* The server starts listening on collections that hold `docs` as users and
\* no voucher.
InitStored(pools, docs) == InitHolding(pools, docs, << >>)

\* The server starts listening on empty collections.
InitWith(pools) == InitStored(pools, << >>)

Next ==
    \/ \E r \in Requests : SyncRequest(r)
    \/ \E r \in Requests : FindKey(r)
    \/ \E r \in Requests : FindVoucher(r)
    \/ \E r \in Requests : FindUser(r)
    \/ \E r \in Requests : InsertUser(r)
    \/ \E r \in Requests : InsertVoucher(r)
    \/ \E r \in Requests : SyncResponse(r)
    \/ \E u \in Registrants, k \in Keys : RegisterKey(u, k)
    \/ \E u \in Registrants, p \in Phones, k \in Keys \cup {Undefined} : Register(u, p, k)

Init == InitWith(Pools)

Spec == Init /\ [][Next]_vars

InitDuplicates == InitWith(PoolsDuplicates)

\* A voucher without an inline key, and a voucher of the same payer that
\* carries the key of somebody else.
PoolsKeys == {{VoucherB, VoucherForged}}

InitKeys == InitWith(PoolsKeys)

SpecKeys == InitKeys /\ [][Next]_vars

SpecDuplicates == InitDuplicates /\ [][Next]_vars

\* The same system with an unreliable store: any awaited store call of a sync
\* request may throw (the store is unreachable).
StoreCalls ==
    {"findKey", "findVoucher", "findUser", "insertUser", "insertVoucher", "countDocuments"}

StoreUnreachable(r) ==
    /\ pc[r] \in StoreCalls
    /\ DatabaseError(r, "store unreachable")
    /\ UNCHANGED << vouchers, users, pool, merchantId, batch, identityCalls, balVars, bootVars >>

NextFault ==
    \/ Next
    \/ \E r \in Requests : StoreUnreachable(r)

SpecFault == Init /\ [][NextFault]_vars

\* The unreliable store under the uploads of PoolsKeys: two different
\* vouchers under one voucherId.
SpecFaultKeys == InitKeys /\ [][NextFault]_vars

\* Uploads for every reason of rejection: the three that fail the simple
\* validation; a voucher without payer, a tampered one and one whose key must
\* be looked up; two payers' vouchers under one voucherId.
PoolsRejections ==
    {{VoucherWrongMerchant, VoucherGarbageSignature, VoucherStringAmount},
     {VoucherNoPayer, VoucherATampered, VoucherB},
     {VoucherA, VoucherOtherPayer}}

InitRejections == InitWith(PoolsRejections)

SpecRejections == InitRejections /\ [][Next]_vars

\* Uploads that fail in the verification, each in its own way, and uploads
\* that fail in it next to vouchers that pass.
PoolsVerification ==
    {{VoucherBadKey, VoucherGarbageSignature, VoucherOverstated},
     {VoucherBadKey, VoucherA},
     {VoucherUnreadable, VoucherB}}

InitVerification == InitWith(PoolsVerification)

SpecVerification == InitVerification /\ [][Next]_vars

\* Batches of several rejected and of several admitted vouchers, each with
\* its own voucherId.
PoolsOrder ==
    {{VoucherBadKey, VoucherGarbageSignature, VoucherOverstated},
     {VoucherA, VoucherB}}

InitOrder == InitWith(PoolsOrder)

SpecOrder == InitOrder /\ [][Next]_vars

\* Two valid vouchers of one payer the store has not seen, next to the
\* uploads of PoolsKeys.
PoolsUnseen == {{VoucherA, VoucherSecond}} \cup PoolsKeys

InitUnseen == InitWith(PoolsUnseen)

SpecUnseen == InitUnseen /\ [][Next]_vars

\* The process from its start: the module is loaded, connectDB has been
\* called, nothing is connected.  Requests reach the handlers once the server
\* listens.
InitStartup ==
    /\ InitData(PoolsKeys, << >>, << >>)
    /\ db = Undefined
    /\ indexes = << >>
    /\ connectPc = "connect"
    /\ server = "starting"

NextStartup ==
    \/ Connect
    \/ CreateIndex
    \/ ConnectDBFails
    \/ Listen
    \/ server = "listening" /\ Next

SpecStartup == InitStartup /\ [][NextStartup]_vars

\* The sync route on a store where u1 has registered and topped up 50.
FundedUser ==
    SetFields(NewUser("u1", "p1", "k1"),
              [balance |-> 50,
               balanceHistory |-> << [type |-> "add", amount |-> 50,
                                      timestamp |-> ServerTime, previousBalance |-> 0,
                                      newBalance |-> 50] >>])

InitFunded == InitStored(PoolsDuplicates, << FundedUser >>)

SpecFunded == InitFunded /\ [][Next]_vars

\* The wallet routes on a store where two users have registered, no sync
\* request running.  Wallet requests overlap freely.
InitBalance ==
    InitStored({{}}, << NewUser("u1", "p1", "k1"), NewUser("u2", "p2", "k2") >>)

\* What the wallet requests of concurrent runs carry.
BalanceAmounts == {Num(30), Num(50), Num(1001)}

\* Wallet requests are numbered in the order of their arrival.
NextToArrive(b) == \A c \in BalanceRequests : c < b => balPc[c] # "idle"

NextBalance ==
    \/ \E b \in BalanceRequests, u \in UserIds, a \in BalanceAmounts :
           NextToArrive(b) /\ AddRequest(b, u, a)
    \/ \E b \in BalanceRequests : AddFindOne(b)
    \/ \E b \in BalanceRequests : AddUpdateOne(b)
    \/ \E b \in BalanceRequests, u \in UserIds, a \in BalanceAmounts :
           NextToArrive(b) /\ DeductRequest(b, u, a)
    \/ \E b \in BalanceRequests : DeductFindOne(b)
    \/ \E b \in BalanceRequests : DeductUpdateOne(b)

SpecBalance == InitBalance /\ [][NextBalance]_vars

\* The wallet routes on a store where u1 and u2 have registered and voucher A
\* of u1 has been settled.
InitWallet ==
    InitHolding({{}}, << NewUser("u1", "p1", "k1"), NewUser("u2", "p2", "k2") >>,
                << VoucherDocument(VoucherA, "m1") >>)

SpecWallet == InitWallet /\ [][NextBalance]_vars

\* The same routes when the clients send one wallet request at a time: a
\* request arrives only when no other is being served.
Quiet == \A b \in BalanceRequests : balPc[b] \in {"idle", "done"}

\* What the wallet requests of one-at-a-time runs carry.
SerialAmounts ==
    {Num(30), Num(50), Num(1000), Num(1001), Num(0), Num(-5), Str(50), Inf(1)}

NextSerial ==
    \/ \E b \in BalanceRequests, a \in SerialAmounts :
           Quiet /\ NextToArrive(b) /\ AddRequest(b, "u1", a)
    \/ \E b \in BalanceRequests : AddFindOne(b)
    \/ \E b \in BalanceRequests : AddUpdateOne(b)
    \/ \E b \in BalanceRequests, a \in SerialAmounts :
           Quiet /\ NextToArrive(b) /\ DeductRequest(b, "u1", a)
    \/ \E b \in BalanceRequests : DeductFindOne(b)
    \/ \E b \in BalanceRequests : DeductUpdateOne(b)

SpecSerial == InitBalance /\ [][NextSerial]_vars

\* ------------------------------------------------------------ vocabulary

\* The number of ledger documents with this voucherId.
Stored(voucherId) == Cardinality({i \in 1..Len(vouchers) : vouchers[i].voucherId = voucherId})

\* The voucher request r is processing.
Current(r) == batch[r][idx[r]]

\* The balance and the history the store holds for identity u.
BalanceOf(coll, u) ==
    LET i == FindOne(coll, "userId", u)
    IN  IF i = 0 \/ "balance" \notin DOMAIN coll[i] THEN 0 ELSE coll[i].balance

HistoryOf(coll, u) ==
    LET i == FindOne(coll, "userId", u)
    IN  IF i = 0 \/ "balanceHistory" \notin DOMAIN coll[i] THEN << >> ELSE coll[i].balanceHistory

\* The credits less the debits of identity u that were answered with success,
\* among the wallet requests 1..n.
RECURSIVE MovedBy(_, _)
MovedBy(u, n) ==
    IF n = 0
    THEN 0
    ELSE MovedBy(u, n - 1) +
         (IF balRequest[n].userId = u /\ balResponse[n].status = 200
          THEN IF balRequest[n].route = "add"
               THEN balRequest[n].amount.n
               ELSE 0 - balRequest[n].amount.n
          ELSE 0)

\* No wallet request of identity u is being served.
Settled(u) ==
    \A b \in BalanceRequests : balRequest[b].userId = u => balPc[b] \in {"idle", "done"}

\* This step is a step of wallet request b that leaves the store call `at`.
Leaves(b, at) == balPc[b] = at /\ balPc'[b] # at

\* This step stores a voucher of request r in the ledger.
Admits(r) == pc[r] = "insertVoucher" /\ Len(vouchers') = Len(vouchers) + 1

\* Voucher v of a batch declared for m passes every check of the handler that
\* does not read the store, with its inline key.
ValidInline(v, m) ==
    /\ Validate(v, m) = "ok"
    /\ ~Falsy(v.publicKeyHex)
    /\ VerifyVoucher(v, v.publicKeyHex) = "ok"

DuplicateEntry(voucherId) == [voucherId |-> voucherId, reason |-> "Duplicate voucherId"]

InSeq(x, seq) == \E i \in 1..Len(seq) : seq[i] = x

\* ------------------------------------------------------------------ claims

\* C1: in every reachable state, whatever the interleaving of the sync
\* requests, the voucher ledger holds at most one document per voucherId.
C1_UniqueVoucherId ==
    \A i, j \in 1..Len(vouchers) :
        vouchers[i].voucherId = vouchers[j].voucherId => i = j

\* C1 witness: two requests passed the duplicate check for the same voucherId,
\* one stored it and the other's insert hit the unique index.
C1_Witness ==
    \E r \in Requests :
        /\ syncError[r] = "E11000 duplicate key: vouchers.voucherId"
        /\ Stored(Current(r).voucherId) = 1

\* C2: two requests that each carry the same valid, not yet admitted voucherId
\* (neither of them stopped by the auto-registration of the payer): once both
\* have ended, both were answered with a result (neither failed as a whole),
\* exactly one lists the voucherId in syncedIds and the other lists it in
\* rejected as "Duplicate voucherId".
C2_OneAdmissionOneDuplicate ==
    \A r, q \in Requests : \A i \in 1..Len(batch[r]), j \in 1..Len(batch[q]) :
        ( /\ r # q
          /\ pc[r] = "done" /\ pc[q] = "done"
          /\ syncError[r] # "E11000 duplicate key: users.userId"
          /\ syncError[q] # "E11000 duplicate key: users.userId"
          /\ batch[r][i].voucherId = batch[q][j].voucherId
          /\ ValidInline(batch[r][i], merchantId[r])
          /\ ValidInline(batch[q][j], merchantId[q]) )
        => /\ response[r].status = 200
           /\ response[q].status = 200
           /\ InSeq(batch[r][i].voucherId, response[r].syncedIds)
                 # InSeq(batch[r][i].voucherId, response[q].syncedIds)
           /\ \/ InSeq(DuplicateEntry(batch[r][i].voucherId), response[r].rejected)
              \/ InSeq(DuplicateEntry(batch[r][i].voucherId), response[q].rejected)

\* C3: when a request runs the duplicate check for a voucher that passed
\* validation and signature verification and whose voucherId is already in the
\* ledger, the voucher is appended to rejected as "Duplicate voucherId",
\* nothing is added to syncedIds, the ledger is left as it is and it holds the
\* voucherId exactly once.
C3_DuplicateRejected ==
    [][ \A r \in Requests :
          ( /\ pc[r] = "findVoucher"
            /\ pc'[r] # "findVoucher" \/ idx'[r] # idx[r]
            /\ Stored(Current(r).voucherId) > 0 )
          => /\ Len(rejected'[r]) > Len(rejected[r])
             /\ SubSeq(rejected'[r], 1, Len(rejected[r]) + 1)
                   = Append(rejected[r], DuplicateEntry(Current(r).voucherId))
             /\ syncedIds'[r] = syncedIds[r]
             /\ vouchers' = vouchers
             /\ Stored(Current(r).voucherId) = 1 ]_vars

\* C3 witness: the batch [A, A] was answered with syncedIds = [v1],
\* rejected = [{v1, Duplicate voucherId}] and totalStored = 1.
C3_Witness ==
    \E r \in Requests :
        /\ batch[r] = << VoucherA, VoucherA >>
        /\ response[r].status = 200
        /\ response[r].syncedIds = << "v1" >>
        /\ response[r].rejected = << DuplicateEntry("v1") >>
        /\ response[r].totalStored = 1

\* The five signed fields as the ledger document d holds them.
StoredFields(d) ==
    [voucherId |-> d.voucherId, merchantId |-> d.merchantId, amount |-> d.amount,
     createdAt |-> d.createdAt, issuedTo |-> d.issuedTo]

\* C4: every voucher in the ledger carries a signature made over exactly the
\* voucherId, merchantId, amount, createdAt and issuedTo it was admitted with:
\* no voucher is admitted with a field that differs from what was signed.
C4_SignedFieldsAdmitted ==
    \A i \in 1..Len(vouchers) :
        /\ vouchers[i].signature.form = "der"
        /\ vouchers[i].signature.signed = StoredFields(vouchers[i])

\* C5: every sync request with a well-formed body ends with a result in which
\* each voucher of the batch appears exactly once, in syncedIds or in rejected
\* with a reason, and every voucher of the batch that passes the checks with
\* its inline key is in the ledger.
C5_EveryVoucherAccounted ==
    \A r \in Requests :
        (pc[r] = "done" /\ ~Falsy(merchantId[r]))
        => /\ response[r].status = 200
           /\ Len(response[r].syncedIds) + Len(response[r].rejected) = Len(batch[r])
           /\ \A i \in 1..Len(response[r].rejected) : response[r].rejected[i].reason # ""
           /\ \A i \in 1..Len(batch[r]) :
                ValidInline(batch[r][i], merchantId[r]) => Stored(batch[r][i].voucherId) > 0

\* C6: a request that ends with the service error after it decided the outcome
\* of some vouchers reports those outcomes, syncedIds and rejected, with the
\* error.
C6_DecidedOutcomesReported ==
    \A r \in Requests :
        (response[r].status = 500 /\ Len(syncedIds[r]) + Len(rejected[r]) > 0)
        => /\ {"syncedIds", "rejected"} \subseteq DOMAIN response[r]
           /\ response[r].syncedIds = syncedIds[r]
           /\ response[r].rejected = rejected[r]

\* C7: every document of the ledger has a finite amount > 0.
C7_PositiveAmounts ==
    \A i \in 1..Len(vouchers) :
        vouchers[i].amount.t = "number" /\ vouchers[i].amount.n > 0

\* C8: a voucher whose issuedTo has a stored public key is stored in the
\* ledger only if its signature verifies against that stored key.
C8_VerifiedAgainstStoredKey ==
    [][ \A r \in Requests :
          (Admits(r) /\ StoredKey(users, Current(r).issuedTo) \in Keys)
          => VerifyVoucher(Current(r), StoredKey(users, Current(r).issuedTo)) = "ok" ]_vars

\* C9: no step changes the stored public key of an identity that has one.
C9_StoredKeyImmutable ==
    [][ \A u \in UserIds :
          ~Falsy(StoredKey(users, u)) => StoredKey(users', u) = StoredKey(users, u) ]_vars

\* C10: once a voucher verified with its inline key is stored in the ledger,
\* its issuedTo has a stored public key, the inline key when it had none
\* before, so that a later voucher without publicKeyHex can be verified.
C10_KeyProvisioned ==
    [][ \A r \in Requests :
          (Admits(r) /\ ~Falsy(Current(r).publicKeyHex))
          => ~Falsy(StoredKey(users', Current(r).issuedTo)) ]_vars

\* C11: the key a voucher is verified against is its inline publicKeyHex when
\* it has one, and otherwise the key stored for its issuedTo at the lookup; a
\* voucher with neither is rejected for the missing key, and the rejection is
\* the missing-key one, never one of the verification's.
C11_KeySelection ==
    [][\A r \in Requests :
          /\ (pc'[r] = "findVoucher" /\ (pc[r] # "findVoucher" \/ idx'[r] # idx[r]))
                => LET v == batch'[r][idx'[r]]
                   IN  userPubHex'[r] = IF ~Falsy(v.publicKeyHex)
                                        THEN v.publicKeyHex
                                        ELSE StoredKey(users, v.issuedTo)
          /\ (/\ pc[r] = "findKey"
              /\ (pc'[r] # "findKey" \/ idx'[r] # idx[r])
              /\ syncError'[r] = ""
              /\ Falsy(StoredKey(users, Current(r).issuedTo)))
                => /\ Len(rejected'[r]) > Len(rejected[r])
                   /\ rejected'[r][Len(rejected[r]) + 1] =
                         [voucherId |-> Current(r).voucherId,
                          reason |-> "Missing public key in voucher"]]_vars

\* One request answered that a voucher had no key at all, and a later request
\* verified a voucher without inline key against the key stored meanwhile.
C11_Witness ==
    \E r, q \in Requests :
        /\ response[r].status = 200
        /\ InSeq([voucherId |-> "v2", reason |-> "Missing public key in voucher"],
                 response[r].rejected)
        /\ pc[q] = "findVoucher"
        /\ Falsy(Current(q).publicKeyHex)
        /\ userPubHex[q] = StoredKey(users, Current(q).issuedTo)

\* C12: however credit and debit requests on one identity overlap, once they
\* are all answered the balance is the initial balance (0 at registration)
\* plus the credits answered with success minus the debits answered with
\* success.
C12_NoLostUpdate ==
    \A u \in UserIds : Settled(u) => BalanceOf(users, u) = MovedBy(u, MaxBalanceRequests)

\* C13: when credit and debit requests on one identity run one after another,
\* the balance is at every moment the initial balance (0 at registration) plus
\* the accepted credits minus the accepted debits.
C13_SerialConservation ==
    \A u \in UserIds : BalanceOf(users, u) = MovedBy(u, MaxBalanceRequests)

\* A credit, a debit and one more request have been answered in turn, and the
\* wallet holds what the first two left.
C13_Witness ==
    /\ \A b \in 1..3 : balPc[b] = "done"
    /\ balRequest[1].route = "add" /\ balResponse[1].status = 200
    /\ balRequest[2].route = "deduct" /\ balResponse[2].status = 200
    /\ balResponse[3].status = 400
    /\ BalanceOf(users, "u1") = 20

\* C14: no stored balance is ever negative, also when two debits of one
\* identity overlap and both pass the insufficiency check on one balance.
C14_NonNegative ==
    \A i \in 1..Len(users) : "balance" \in DOMAIN users[i] => users[i].balance >= 0

\* Two debits of one identity read the same balance, both passed the check
\* although the balance does not cover their sum, and both were applied.
C14_Witness ==
    \E b, c \in BalanceRequests :
        /\ b # c
        /\ balRequest[b].route = "deduct" /\ balRequest[c].route = "deduct"
        /\ balRequest[b].userId = balRequest[c].userId
        /\ balResponse[b].status = 200 /\ balResponse[c].status = 200
        /\ balRead[b] = balRead[c]
        /\ balRequest[b].amount.n + balRequest[c].amount.n > balRead[b]

\* C15: a debit whose amount is greater than the balance of its identity is
\* answered "Insufficient balance" with required = amount and available = the
\* balance, and changes nothing in the store; a debit with 0 < amount <=
\* balance is not rejected, and its update lowers the balance by exactly the
\* amount and appends one payment entry to the history.
C15_Debit ==
    [][\A b \in BalanceRequests :
          LET u == balRequest[b].userId
              a == balRequest[b].amount
              known == FindOne(users, "userId", u) # 0
              greater == a.t = "infinity" \/ a.n > BalanceOf(users, u)
          IN  /\ (Leaves(b, "deductFindOne") /\ known /\ greater)
                    => /\ balResponse'[b] =
                             [status |-> 400, error |-> "Insufficient balance",
                              required |-> a, available |-> BalanceOf(users, u)]
                       /\ users' = users
              /\ (Leaves(b, "deductFindOne") /\ known /\ ~greater)
                    => balPc'[b] = "deductUpdateOne"
              /\ Leaves(b, "deductUpdateOne")
                    => /\ balResponse'[b].status = 200
                       /\ BalanceOf(users', u) = BalanceOf(users, u) - a.n
                       /\ Len(HistoryOf(users', u)) = Len(HistoryOf(users, u)) + 1
                       /\ SubSeq(HistoryOf(users', u), 1, Len(HistoryOf(users, u))) =
                             HistoryOf(users, u)
                       /\ LET e == HistoryOf(users', u)[Len(HistoryOf(users', u))]
                          IN  e.type = "payment" /\ e.amount = a.n]_vars

\* C16: a credit with 0 < amount <= 1000 on an existing identity is never
\* rejected, and its update raises the balance by exactly the amount and
\* appends one entry of type add with newBalance = previousBalance + amount;
\* a credit whose amount is no number, is <= 0 or is above 1000 is rejected
\* and changes nothing in the store.
C16_Credit ==
    [][\A b \in BalanceRequests :
          LET u == balRequest[b].userId
              a == balRequest[b].amount
          IN  /\ (balPc[b] = "idle" /\ balPc'[b] # "idle" /\ balRequest'[b].route = "add")
                    => IF LET n == balRequest'[b].amount
                          IN  n.t = "number" /\ 0 < n.n /\ n.n <= 1000
                       THEN balPc'[b] = "addFindOne"
                       ELSE /\ balPc'[b] = "done"
                            /\ balResponse'[b].status = 400
                            /\ users' = users
              /\ (Leaves(b, "addFindOne") /\ FindOne(users, "userId", u) # 0)
                    => balPc'[b] = "addUpdateOne"
              /\ Leaves(b, "addUpdateOne")
                    => /\ balResponse'[b].status = 200
                       /\ BalanceOf(users', u) = BalanceOf(users, u) + a.n
                       /\ Len(HistoryOf(users', u)) = Len(HistoryOf(users, u)) + 1
                       /\ SubSeq(HistoryOf(users', u), 1, Len(HistoryOf(users, u))) =
                             HistoryOf(users, u)
                       /\ LET e == HistoryOf(users', u)[Len(HistoryOf(users', u))]
                          IN  /\ e.type = "add" /\ e.amount = a.n
                              /\ e.newBalance = e.previousBalance + a.n]_vars

\* C17: no step of a sync request changes the balance or the balanceHistory
\* of any identity, whatever the request admits or rejects in that step.
C17_SyncLeavesWallets ==
    [][reqVars' # reqVars
          => \A u \in UserIds :
                 /\ BalanceOf(users', u) = BalanceOf(users, u)
                 /\ HistoryOf(users', u) = HistoryOf(users, u)]_vars

\* A voucher of u1 was admitted and u1 still holds the 50 topped up.
C17_Witness ==
    /\ \E i \in 1..Len(vouchers) : vouchers[i].issuedTo = "u1"
    /\ BalanceOf(users, "u1") = 50
    /\ Len(HistoryOf(users, "u1")) = 1

\* C18: a step in which a sync request rejects a voucher writes nothing to
\* the identity store, and writes to the ledger at most the voucher the
\* request admits in that step before it goes on to the rejected one.
C18_RejectedLeavesNoTrace ==
    [][\A r \in Requests :
          rejected'[r] # rejected[r]
             => /\ users' = users
                /\ \/ vouchers' = vouchers
                   \/ /\ pc[r] = "insertVoucher"
                      /\ syncedIds'[r] = Append(syncedIds[r], Current(r).voucherId)
                      /\ vouchers' = Append(vouchers,
                                            VoucherDocument(Current(r), merchantId[r]))]_vars

\* A request has answered with a duplicate rejection for a voucher whose payer
\* the identity store does not know.
C18_Witness ==
    \E r \in Requests :
        /\ response[r].status = 200
        /\ \E i \in 1..Len(response[r].rejected) :
               /\ response[r].rejected[i].reason = "Duplicate voucherId"
               /\ \E j \in 1..Len(batch[r]) :
                      /\ batch[r][j].voucherId = response[r].rejected[i].voucherId
                      /\ FindOne(users, "userId", batch[r][j].issuedTo) = 0

\* C19: no step removes or changes a document of the ledger: the ledger only
\* grows at its end, also when a later voucher of the batch is rejected or a
\* store call fails.
C19_LedgerOnlyGrows ==
    [][/\ Len(vouchers') >= Len(vouchers)
       /\ \A i \in 1..Len(vouchers) : vouchers'[i] = vouchers[i]]_vars

\* A request admitted a voucher, failed as a whole on a later store call, and
\* the voucher is in the ledger.
C19_Witness ==
    \E r \in Requests :
        /\ response[r].status = 500
        /\ Len(syncedIds[r]) >= 1
        /\ Stored(syncedIds[r][1]) = 1

\* C20: every document of the ledger has status "synced", never "offline",
\* the server's time as syncedAt, and the merchantId declared by a batch that
\* admitted its voucherId.
C20_StoredAsSynced ==
    \A i \in 1..Len(vouchers) :
        /\ vouchers[i].status = "synced"
        /\ vouchers[i].syncedAt = ServerTime
        /\ \E r \in Requests :
               /\ InSeq(vouchers[i].voucherId, syncedIds[r])
               /\ merchantId[r] = vouchers[i].merchantId

\* Two vouchers uploaded by the devices are in the ledger.
C20_Witness ==
    /\ Len(vouchers) = 2
    /\ \A i \in 1..2 : \E v \in pool : v.voucherId = vouchers[i].voucherId

\* Verifying voucher v against its inline key, or against whatever key is
\* stored when it has none, throws.
VerifyThrows(v) ==
    IF Falsy(v.publicKeyHex)
    THEN v.signature.form # "der"
    ELSE EcVerify(v.publicKeyHex, Sha256Hex(JsonStringify(Payload(v))), v.signature) = "throws"

\* C21: a voucher whose key or signature makes the verification throw is
\* rejected with the verification-error reason (or, when it has no key at
\* all, for the missing key); the request goes on: it never ends in an error
\* at such a voucher, and when it answers it accounts for every voucher of
\* the batch.
C21_VerifyErrorRejectsOne ==
    \A r \in Requests :
        /\ \A j \in 1..Len(batch[r]) :
               (j < idx[r] /\ Validate(batch[r][j], merchantId[r]) = "ok"
                           /\ VerifyThrows(batch[r][j]))
                  => \/ InSeq([voucherId |-> batch[r][j].voucherId,
                               reason |-> "Signature verify error"], rejected[r])
                     \/ /\ Falsy(batch[r][j].publicKeyHex)
                        /\ InSeq([voucherId |-> batch[r][j].voucherId,
                                  reason |-> "Missing public key in voucher"], rejected[r])
        /\ response[r].status = 500 => VerifyVoucher(Current(r), userPubHex[r]) = "ok"
        /\ response[r].status = 200
              => Len(response[r].syncedIds) + Len(response[r].rejected) = Len(batch[r])

\* A request answered a batch of a voucher with an unparseable key and a
\* valid voucher: the first rejected with the verification error, the second
\* admitted.
C21_Witness ==
    \E r \in Requests :
        /\ batch[r] = << VoucherBadKey, VoucherA >>
        /\ response[r].status = 200
        /\ response[r].syncedIds = << "v1" >>
        /\ response[r].rejected =
              << [voucherId |-> "v3", reason |-> "Signature verify error"] >>

\* How the verification of voucher v with its inline key fails: the key
\* cannot be parsed, the signature cannot be parsed, key and signature are
\* well formed but do not match the digest of the payload; "none" otherwise.
FailureClass(v) ==
    IF Falsy(v.publicKeyHex) THEN "none"
    ELSE IF v.publicKeyHex \notin Keys THEN "key"
    ELSE IF v.signature.form # "der" THEN "signature"
    ELSE IF v.signature.signer # v.publicKeyHex
            \/ JsonStringify(v.signature.signed) # JsonStringify(Payload(v))
    THEN "digest"
    ELSE "none"

\* The reason request r has recorded for the voucherId.
ReasonGiven(r, voucherId) ==
    LET hits == {k \in 1..Len(rejected[r]) : rejected[r][k].voucherId = voucherId}
    IN  IF hits = {} THEN "" ELSE rejected[r][CHOOSE k \in hits : TRUE].reason

\* C22: two vouchers of a batch whose verification fails in different ways
\* (unparseable key, unparseable signature, digest mismatch) are rejected
\* with different reasons.
C22_DistinctReasons ==
    \A r \in Requests :
        \A i, j \in 1..Len(batch[r]) :
            LET v == batch[r][i]
                w == batch[r][j]
            IN  (/\ i < idx[r] /\ j < idx[r]
                 /\ v.voucherId # w.voucherId
                 /\ Validate(v, merchantId[r]) = "ok" /\ Validate(w, merchantId[r]) = "ok"
                 /\ FailureClass(v) # "none" /\ FailureClass(w) # "none"
                 /\ FailureClass(v) # FailureClass(w))
                    => ReasonGiven(r, v.voucherId) # ReasonGiven(r, w.voucherId)

\* The vouchers j.. of the batch of request r, up to the n-th, are listed in
\* this order in syncedIds from position s + 1 on and in rejected from
\* position k + 1 on, each voucher in one of the two.
RECURSIVE InOrder(_, _, _, _, _)
InOrder(r, n, j, s, k) ==
    IF j > n
    THEN s = Len(syncedIds[r]) /\ k = Len(rejected[r])
    ELSE \/ /\ s < Len(syncedIds[r])
            /\ syncedIds[r][s + 1] = batch[r][j].voucherId
            /\ InOrder(r, n, j + 1, s + 1, k)
         \/ /\ k < Len(rejected[r])
            /\ rejected[r][k + 1].voucherId = batch[r][j].voucherId
            /\ InOrder(r, n, j + 1, s, k + 1)

\* C23: a sync request works on one voucher at a time, in the order of the
\* batch: the vouchers before the one it is working on, and only they, are
\* decided, and syncedIds and rejected list them in the order of the batch.
C23_InputOrder ==
    \A r \in Requests :
        (pc[r] # "idle" /\ response[r].status # 400)
           => LET n == Len(syncedIds[r]) + Len(rejected[r])
              IN  /\ idx[r] = n + 1
                  /\ n <= Len(batch[r])
                  /\ InOrder(r, n, 1, 0, 0)

\* A request answered a batch of two valid vouchers with both voucherIds in
\* syncedIds, in the order of the batch.
C23_Witness ==
    \E r \in Requests :
        /\ batch[r] = << VoucherB, VoucherA >>
        /\ response[r].status = 200
        /\ response[r].syncedIds = << "v2", "v1" >>

\* C24: the duplicate check and the insert are one atomic step: no request
\* stands between its duplicate check and its insert for a voucherId while
\* the ledger holds a document with that voucherId.
C24_CheckAndInsertAtomic ==
    \A r \in Requests :
        pc[r] \in {"findUser", "insertUser", "insertVoucher"}
           => Stored(Current(r).voucherId) = 0

\* C25: when two sync requests have answered, one for the batch [A] and one
\* for the batch [Second], two valid vouchers of u1 with different
\* voucherIds, and nobody else has written u1 to the identity store, both
\* answers list their voucher in syncedIds and the store holds exactly one
\* document of u1.
C25_BothAdmittedOneIdentity ==
    \A r, q \in Requests :
        (/\ batch[r] = << VoucherA >> /\ batch[q] = << VoucherSecond >>
         /\ merchantId[r] = "m1" /\ merchantId[q] = "m1"
         /\ pc[r] = "done" /\ pc[q] = "done"
         /\ identityCalls = 0)
            => /\ response[r].status = 200 /\ response[r].syncedIds = << "v1" >>
               /\ response[q].status = 200 /\ response[q].syncedIds = << "v2" >>
               /\ Cardinality({i \in 1..Len(users) : users[i].userId = "u1"}) = 1

\* C26: the balance history of every identity is a chain: the first entry
\* starts from 0, every other entry starts from the newBalance of the entry
\* before it, and the last entry ends at the stored balance.
C26_HistoryChain ==
    \A u \in UserIds :
        LET h == HistoryOf(users, u)
        IN  /\ \A i \in 1..Len(h) :
                   h[i].previousBalance = IF i = 1 THEN 0 ELSE h[i - 1].newBalance
            /\ Len(h) > 0 => h[Len(h)].newBalance = BalanceOf(users, u)

\* C27: a step of a credit or debit request leaves the ledger as it is, adds
\* and removes no users document, and changes at most the balance and the
\* balanceHistory of the document of the identity that sent the request.
C27_WalletFrame ==
    [][\A b \in BalanceRequests :
          balPc'[b] # balPc[b]
             => /\ vouchers' = vouchers
                /\ Len(users') = Len(users)
                /\ \A i \in 1..Len(users) :
                       /\ users[i].userId # balRequest'[b].userId => users'[i] = users[i]
                       /\ DOMAIN users'[i] \subseteq
                             DOMAIN users[i] \cup {"balance", "balanceHistory"}
                       /\ \A f \in DOMAIN users[i] \ {"balance", "balanceHistory"} :
                              users'[i][f] = users[i][f]]_vars

\* u1 has topped up 50 and paid 30; u2's document is as registration left it
\* and the settled voucher is in the ledger.
C27_Witness ==
    /\ BalanceOf(users, "u1") = 20
    /\ Len(HistoryOf(users, "u1")) = 2
    /\ users[2] = NewUser("u2", "p2", "k2")
    /\ StoredKey(users, "u1") = "k1"
    /\ vouchers = << VoucherDocument(VoucherA, "m1") >>

\* A handler has started to serve some request.
Served ==
    \/ \E r \in Requests : pc[r] # "idle"
    \/ \E b \in BalanceRequests : balPc[b] # "idle"
    \/ identityCalls > 0

\* The unique index on the key of the collection exists.
UniqueIndexCreated(collection, key) ==
    \E i \in 1..Len(indexes) :
        indexes[i] = [collection |-> collection, key |-> key, unique |-> TRUE]

\* No request is served, and the server does not listen, before the store is
\* connected and the unique indexes on vouchers.voucherId and users.userId
\* exist.
ServedWhenReady ==
    /\ Served => /\ server = "listening"
                 /\ db # Undefined
                 /\ UniqueIndexCreated("vouchers", "voucherId")
                 /\ UniqueIndexCreated("users", "userId")
    /\ server = "listening" => connectPc = "done"

\* C28, as stated: no request is served before the connection and the unique
\* indexes exist, the server listens only after connectDB has completed, and
\* until connectDB has completed getDB throws.
C28_GetDBFailsUntilCompleted ==
    /\ ServedWhenReady
    /\ connectPc # "done" => GetDB = "throws"

\* C28, amended: no request is served before the connection and the unique
\* indexes exist, the server listens only after connectDB has completed, and
\* getDB throws until client.connect() has resolved; from then on, also while
\* the indexes are being created, it returns the handle.
C28_GetDBFailsUntilConnected ==
    /\ ServedWhenReady
    /\ connectPc = "connect" => GetDB = "throws"
    /\ connectPc \in {"createIndex", "done"} => GetDB = DbHandle

\* After the start-up a sync request has been served and its voucher stored.
C28_Witness ==
    /\ server = "listening"
    /\ Len(indexes) = Len(IndexSpecs)
    /\ \E r \in Requests : response[r].status = 200 /\ Len(response[r].syncedIds) > 0

====
